---- MODULE Spec2Model ----
(***************************************************************************)
(* Knowledge base of the legal-assistant backend: the ingestion, deletion, *)
(* reindex and search pipeline of KnowledgeManager (knowledge_manager.py)  *)
(* and the HTTP handlers of main.py that call it.                          *)
(*                                                                         *)
(* The vector index (OpenSearch) is a map from record id to VectorRecord,  *)
(* the metadata store (DocumentDB) a map from _id to MetadataRecord, the   *)
(* knowledge-base directory a map from path to file bytes.  Every handler  *)
(* is one action; a call to an external service inside it may raise, which *)
(* the action takes as the input fp (the call that fails, if any).         *)
(* Scores are fixed-point numbers in hundredths (One is 1.0).              *)
(***************************************************************************)
EXTENDS Integers, Sequences, FiniteSets, TLC

VARIABLES vec, meta, files, nextDoc, nextOs, ret, inflight, stream, agents, runs

vars == <<vec, meta, files, nextDoc, nextOs, ret, inflight, stream, agents, runs>>

\* the stores of the knowledge base
stores == <<vec, meta, files, nextDoc, nextOs>>
\* what the knowledge handlers running one at a time leave alone: a
\* reindex_all in progress and the streamed query
others == <<inflight, stream, agents, runs>>

(* ------------------------------ bounds -------------------------------- *)

\* document identifiers an upload may allocate
MaxDocs == 2
\* chunks a reader may split one file into
MaxChunks == 2

(* ------------------------------ inputs -------------------------------- *)

Categories == {"general", "legal"}

\* file names a client uploads: <<stem, extension as typed>>
FileNames == {<<"brief", ".txt">>, <<"lease", ".PDF">>, <<"run", ".exe">>}

\* document-type tags a client sends
TypeTags == {"text", "pdf", "html"}

\* bytes of an uploaded file: the number of chunks its reader splits it into
FileBytes == 0..MaxChunks

\* no filter / no value (Python None or "", both falsy)
None == ""

(* --------------------------- pure helpers ----------------------------- *)

Min(a, b) == IF a <= b THEN a ELSE b

\* str.lower() on the extensions of FileNames
Lower(ext) ==
    CASE ext = ".PDF" -> ".pdf"
      [] ext = ".TXT" -> ".txt"
      [] OTHER -> ext

\* main.py allowed_types
allowed_types ==
    [t \in {"pdf", "docx", "text"} |->
        CASE t = "pdf" -> {".pdf"}
          [] t = "docx" -> {".docx", ".doc"}
          [] t = "text" -> {".txt", ".md"}]

\* KnowledgeManager.readers: the tags that have a reader
readers == {"pdf", "docx", "text"}

\* length of the preview kept in the vector index: doc.content[:1000]
PreviewLen == 1000

\* The text of chunk i (from 0) of a file: a source text and its length in
\* characters.  Chunk texts cycle through four sources; odd chunks are
\* longer than the preview.
ChunkText(i) ==
    [src |-> CASE i % 4 = 0 -> "contract"
               [] i % 4 = 1 -> "lease"
               [] i % 4 = 2 -> "tort"
               [] OTHER -> "appeal",
     len |-> IF i % 2 = 0 THEN 40 * (i + 1) ELSE 1500 * i]

\* reader.read(path): the ordered chunks of a file with the given bytes
ReaderRead(bytes) == [i \in 1..bytes |-> ChunkText(i - 1)]

\* doc.content[:1000]
Truncate(text) == [text EXCEPT !.len = Min(text.len, PreviewLen)]

\* Titan embedding of a text, normalised: a vector of norm Norm
Norm == 5
Embed(src) ==
    CASE src = "contract" -> <<5, 0>>
      [] src = "lease" -> <<4, 3>>
      [] src = "tort" -> <<0, 5>>
      [] src = "appeal" -> <<-3, -4>>
      [] OTHER -> <<-5, 0>>

\* the embeddings handed back last text first
GenerateEmbeddingsReversed(texts) ==
    [i \in 1..Len(texts) |-> Embed(texts[Len(texts) + 1 - i].src)]

\* the inputText of the invoke_model calls a batch makes, in call order: the
\* loop "for text in texts" makes one call per text
InvokeModelCalls(texts) == [i \in 1..Len(texts) |-> texts[i].src]

\* BedrockEmbedder._get_single_embedding(text)
GetSingleEmbedding(text) == Embed(text.src)

\* BedrockEmbedder.get_embedding(text) for a list of texts
GetEmbedding(texts) == [i \in 1..Len(texts) |-> GetSingleEmbedding(texts[i])]

\* _generate_embeddings_bedrock(texts): one embedding per text, in order
GenerateEmbeddings(texts) == [i \in 1..Len(texts) |-> Embed(texts[i].src)]

(* ----------------------------- the stores ----------------------------- *)

\* the state the pipeline acts on, as one value
Cur == [vec |-> vec, meta |-> meta, files |-> files,
        nextDoc |-> nextDoc, nextOs |-> nextOs]

\* f without the keys in S
Drop(f, S) == [k \in DOMAIN f \ S |-> f[k]]

\* a failure point: the external call that raises (NoFail: none does)
NoFail == [at |-> "none", k |-> 0]
Fail(at, k) == [at |-> at, k |-> k]

(* ---------------------------- add_document ---------------------------- *)

\* a chunk identifier that leaves the chunk ordinal out
MongoIdNoIndex(document_id, i) == <<document_id, 0>>

\* mongo_id = f"{document_id}_chunk_{i}"
MongoId(document_id, i) == <<document_id, i>>

\* the chunk-i VectorRecord body of add_document (opensearch_doc)
OpensearchDoc(document_id, filename, document_type, category, i, text, embedding) ==
    [vector |-> embedding,
     content |-> Truncate(text),
     file_name |-> filename,
     document_type |-> document_type,
     category |-> category,
     chunk_index |-> i,
     mongo_doc_id |-> MongoId(document_id, i)]

\* the metadata map of chunk i (doc_metadata)
DocMetadata(document_id, opensearch_id, file_path, filename, document_type, category, i, total) ==
    [document_id |-> document_id,
     file_path |-> file_path,
     file_name |-> filename,
     document_type |-> document_type,
     category |-> category,
     chunk_index |-> i,
     total_chunks |-> total,
     mongo_doc_id |-> MongoId(document_id, i),
     opensearch_doc_id |-> opensearch_id]

\* the chunk-i MetadataRecord of add_document (mongo_doc)
MongoDoc(document_id, opensearch_id, file_path, filename, document_type, category, i, total, text) ==
    [_id |-> MongoId(document_id, i),
     document_id |-> document_id,
     opensearch_doc_id |-> opensearch_id,
     file_path |-> file_path,
     file_name |-> filename,
     document_type |-> document_type,
     category |-> category,
     chunk_index |-> i,
     total_chunks |-> total,
     content |-> text,
     content_length |-> text.len,
     metadata |-> DocMetadata(document_id, opensearch_id, file_path, filename,
                              document_type, category, i, total)]

\* opensearch_client.index(id, body) for each (id, body) in order: a record
\* indexed under an id the index holds replaces that record
RECURSIVE IndexAll(_, _)
IndexAll(v, docs) ==
    IF docs = <<>> THEN v
    ELSE IndexAll((docs[1][1] :> docs[1][2]) @@ v, Tail(docs))

\* metadata_collection.insert_many(docs), ordered: the records are inserted
\* in order, under their _id
RECURSIVE InsertMany(_, _)
InsertMany(m, docs) ==
    IF docs = <<>> THEN m
    ELSE InsertMany((docs[1]._id :> docs[1]) @@ m, Tail(docs))

\* the failure points of add_document for a file of n chunks
AddFailPoints(n) ==
    {NoFail, Fail("reader", 0)}
    \cup (IF n > 0 THEN {Fail("embed", 0)} ELSE {})
    \cup {Fail("index", k) : k \in 0..(n - 1)}
    \cup {Fail("insert", k) : k \in 0..(n - 1)}

\* a failure handler that restores the state the call started from
OnFailureRollback(before, reached) == before

\* except Exception as e: logger.error(...); raise: the state a failing
\* add_document leaves is the state it had reached
OnFailure(before, reached) == reached

\* chunk positions counted from one
EnumerateFromOne(pos) == pos

\* for i, doc in enumerate(documents): the index i of the chunk at position
\* pos (from 1) of the reader's sequence
EnumerateIndex(pos) == pos - 1

\* insert_many called whatever the list holds
ShouldInsertAlways(metadata_docs) == TRUE

\* if metadata_docs: (insert_many raises for an empty list)
ShouldInsert(metadata_docs) == metadata_docs # <<>>

\* an ingestion that inserts its MetadataRecords first
InsertedFirst(n) == n

\* the MetadataRecords of the n chunks inserted when the loop over
\* opensearch_docs runs: insert_many comes after the loop
InsertedBeforeIndexing(n) == 0

\* an allocation that hands out the same ids in every call
FreshIdReused(next, i) == i + 1

\* opensearch_doc_id = str(uuid.uuid4()): the i-th id (from 0) allocated
\* when next is the first id never handed out
FreshId(next, i) == next + i

\* KnowledgeManager.add_document(file, document_type, category) on state st.
\* file = [filename, bytes].  The result: the state afterwards, whether the
\* call returned (ok) and what it returned.
AddDocument(st, file, document_type, category, fp) ==
    LET document_id == st.nextDoc
        file_path == <<category, document_id, file.filename>>
        saved == [st EXCEPT !.nextDoc = document_id + 1,
                            !.files = (file_path :> file.bytes) @@ st.files]
        documents == ReaderRead(file.bytes)
        n == Len(documents)
        embeddings == GenerateEmbeddings(documents)
        \* chunk i (from 0) gets the i-th freshly allocated index id
        osid(i) == FreshId(st.nextOs, i)
        opensearch_docs ==
            [i \in 1..n |->
                <<osid(i - 1),
                  OpensearchDoc(document_id, file.filename, document_type,
                                category, EnumerateIndex(i), documents[i],
                                embeddings[i])>>]
        metadata_docs ==
            [i \in 1..n |->
                MongoDoc(document_id, osid(i - 1), file_path, file.filename,
                         document_type, category, EnumerateIndex(i), n,
                         documents[i])]
        \* the first k VectorRecords and the first j MetadataRecords written
        written(k, j) ==
            [saved EXCEPT
                !.nextOs = st.nextOs + n,
                !.vec = IndexAll(st.vec, SubSeq(opensearch_docs, 1, k)),
                !.meta = InsertMany(st.meta, SubSeq(metadata_docs, 1, j))]
        \* calls is the number of invoke_model calls made: one per text
        failed(s, why, calls) ==
            [st |-> OnFailure(st, s), ok |-> FALSE, error |-> why,
             document_id |-> document_id, chunks_created |-> 0,
             file_path |-> file_path, embed_calls |-> calls]
    IN  IF document_type \notin readers THEN failed(saved, "unsupported type", 0)
        ELSE IF fp.at = "reader" THEN failed(saved, "reader", 0)
        ELSE IF fp.at = "embed" /\ n > 0 THEN failed(saved, "embedding", 1)
        ELSE IF fp.at = "index" /\ fp.k < n
        THEN failed(written(fp.k, InsertedBeforeIndexing(n)), "index", n)
        ELSE IF fp.at = "insert" /\ fp.k < n
        THEN failed(written(n, fp.k), "insert_many", n)
        ELSE IF ShouldInsert(metadata_docs) /\ metadata_docs = <<>>
        THEN failed(written(n, 0), "insert_many", n)
        ELSE [st |-> written(n, n), ok |-> TRUE, error |-> None,
              document_id |-> document_id, chunks_created |-> n,
              file_path |-> file_path, embed_calls |-> n]

(* --------------------------- list_documents --------------------------- *)

\* the elements of a finite set of integers, ascending
RECURSIVE Ascending(_)
Ascending(S) ==
    IF S = {} THEN <<>>
    ELSE LET m == CHOOSE x \in S : \A y \in S : x <= y
         IN  <<m>> \o Ascending(S \ {m})

\* the elements of a finite set of integers, descending
RECURSIVE Descending(_)
Descending(S) ==
    IF S = {} THEN <<>>
    ELSE LET m == CHOOSE x \in S : \A y \in S : x >= y
         IN  <<m>> \o Descending(S \ {m})

\* metadata_collection.find({"document_id": d}): the MetadataRecords of d in
\* the collection's natural (insertion) order, which is chunk order
FindByDocument(m, d) ==
    LET idx == {k[2] : k \in {x \in DOMAIN m : m[x].document_id = d}}
        order == Ascending(idx)
    IN  [i \in 1..Len(order) |-> m[<<d, order[i]>>]]

\* a $match for which one of the supplied filters is enough
MatchesEither(r, category, document_type) ==
    \/ category = None /\ document_type = None
    \/ category # None /\ r.category = category
    \/ document_type # None /\ r.document_type = document_type

\* the $match stage of list_documents
Matches(r, category, document_type) ==
    /\ (category # None => r.category = category)
    /\ (document_type # None => r.document_type = document_type)

\* KnowledgeManager.list_documents(category, document_type): one summary per
\* document_id among the matching MetadataRecords, newest first (created_at
\* descending: document identifiers are allocated in time order)
ListDocuments(st, category, document_type) ==
    LET m == st.meta
        hit == {x \in DOMAIN m : Matches(m[x], category, document_type)}
        ids == Descending({m[x].document_id : x \in hit})
        group(d) == {x \in hit : m[x].document_id = d}
        first(d) == m[CHOOSE x \in group(d) : \A y \in group(d) : x[2] <= y[2]]
        sum(d) == LET RECURSIVE Add(_)
                      Add(S) == IF S = {} THEN 0
                                ELSE LET x == CHOOSE y \in S : TRUE
                                     IN  m[x].content_length + Add(S \ {x})
                  IN  Add(group(d))
    IN  [i \in 1..Len(ids) |->
            [document_id |-> ids[i],
             file_name |-> first(ids[i]).file_name,
             file_path |-> first(ids[i]).file_path,
             document_type |-> first(ids[i]).document_type,
             category |-> first(ids[i]).category,
             chunk_count |-> Cardinality(group(ids[i])),
             total_content_length |-> sum(ids[i])]]

\* KnowledgeManager.get_stats(): the index's document count, the distinct
\* document_id values and the number of MetadataRecords
GetStats(st) ==
    [total_documents |->
        Cardinality({st.meta[x].document_id : x \in DOMAIN st.meta}),
     total_chunks |-> Cardinality(DOMAIN st.meta),
     opensearch_docs |-> Cardinality(DOMAIN st.vec)]

(* --------------------------- delete_document -------------------------- *)

\* the failure points of delete_document for a document of n MetadataRecords
DeleteFailPoints(n) ==
    {NoFail, Fail("find", 0), Fail("delete_many", 0)}
    \cup {Fail("osdelete", k) : k \in 0..(n - 1)}

\* The loop over opensearch_ids from position i: opensearch_client.delete
\* raises NotFoundError for an id the index does not hold, and the loop has
\* no handler for it.  The result: the index afterwards and whether the
\* loop ran to its end.
RECURSIVE DeleteVectors(_, _, _, _)
DeleteVectors(v, ids, i, fp) ==
    IF i > Len(ids) THEN [vec |-> v, ok |-> TRUE]
    ELSE IF fp.at = "osdelete" /\ fp.k = i - 1 THEN [vec |-> v, ok |-> FALSE]
    ELSE IF ids[i] \notin DOMAIN v THEN [vec |-> v, ok |-> FALSE]
    ELSE DeleteVectors(Drop(v, {ids[i]}), ids, i + 1, fp)

\* the index ids of all the MetadataRecords but the last
OpensearchIdsButLast(mongo_docs) ==
    [i \in 1..(Len(mongo_docs) - 1) |-> mongo_docs[i].opensearch_doc_id]

\* opensearch_ids = [doc["opensearch_doc_id"] for doc in mongo_docs]
OpensearchIds(mongo_docs) ==
    [i \in 1..Len(mongo_docs) |-> mongo_docs[i].opensearch_doc_id]

\* a lookup that never counts as empty
NotFoundNever(mongo_docs) == FALSE

\* if not mongo_docs: raise ValueError("Document ... not found")
NotFound(mongo_docs) == mongo_docs = <<>>

\* KnowledgeManager.delete_document(document_id) on state st
DeleteDocument(st, document_id, fp) ==
    LET mongo_docs == FindByDocument(st.meta, document_id)
        opensearch_ids == OpensearchIds(mongo_docs)
        loop == DeleteVectors(st.vec, opensearch_ids, 1, fp)
        s1 == [st EXCEPT !.vec = loop.vec]
        s2 == [s1 EXCEPT !.meta =
                  Drop(st.meta, {x \in DOMAIN st.meta : st.meta[x].document_id = document_id})]
        s3 == IF mongo_docs # <<>>
              THEN [s2 EXCEPT !.files = Drop(st.files, {mongo_docs[1].file_path})]
              ELSE s2
        failed(s, why) == [st |-> s, ok |-> FALSE, error |-> why, chunks_deleted |-> 0]
    IN  IF fp.at = "find" THEN failed(st, "find")
        ELSE IF NotFound(mongo_docs) THEN failed(st, "not found")
        ELSE IF ~loop.ok THEN failed(s1, "opensearch delete")
        ELSE IF fp.at = "delete_many" THEN failed(s1, "delete_many")
        ELSE [st |-> s3, ok |-> TRUE, error |-> None,
              chunks_deleted |-> Len(mongo_docs)]

(* ----------------------------- reindex_all ---------------------------- *)

\* a failure point of reindex_all: a failure point of the delete_document
\* or of the add_document call made for the doc-th listed document
ReindexNoFail == [doc |-> 0, phase |-> "none", fp |-> NoFail]

ReindexFailPoints(st) ==
    LET documents == ListDocuments(st, None, None)
    IN  {ReindexNoFail, [doc |-> 0, phase |-> "list", fp |-> NoFail]}
        \cup {[doc |-> i, phase |-> "delete", fp |-> f] :
                i \in 1..Len(documents),
                f \in DeleteFailPoints(MaxChunks) \ {NoFail}}
        \cup {[doc |-> i, phase |-> "add", fp |-> f] :
                i \in 1..Len(documents),
                f \in AddFailPoints(MaxChunks) \ {NoFail}}

\* The loop of reindex_all over the listed documents from position i:
\* delete the document, then add it again from its stored file when that
\* file (still) exists.
RECURSIVE ReindexLoop(_, _, _, _, _, _)
ReindexLoop(st, documents, i, total_processed, total_chunks, rfp) ==
    IF i > Len(documents)
    THEN [st |-> st, ok |-> TRUE, documents_processed |-> total_processed,
          chunks_created |-> total_chunks]
    ELSE
      LET doc == documents[i]
          at(phase) == IF rfp.doc = i /\ rfp.phase = phase THEN rfp.fp ELSE NoFail
          del == DeleteDocument(st, doc.document_id, at("delete"))
          exists == doc.file_path \in DOMAIN del.st.files
          mock_file == [filename |-> doc.file_name, bytes |-> del.st.files[doc.file_path]]
          add == AddDocument(del.st, mock_file, doc.document_type, doc.category, at("add"))
          failed(s) == [st |-> s, ok |-> FALSE, documents_processed |-> 0,
                        chunks_created |-> 0]
      IN  IF ~del.ok THEN failed(del.st)
          ELSE IF ~exists
               THEN ReindexLoop(del.st, documents, i + 1, total_processed, total_chunks, rfp)
          ELSE IF ~add.ok THEN failed(add.st)
          ELSE ReindexLoop(add.st, documents, i + 1, total_processed + 1,
                           total_chunks + add.chunks_created, rfp)

\* KnowledgeManager.reindex_all() on state st
ReindexAll(st, rfp) ==
    IF rfp.phase = "list"
    THEN [st |-> st, ok |-> FALSE, documents_processed |-> 0, chunks_created |-> 0]
    ELSE ReindexLoop(st, ListDocuments(st, None, None), 1, 0, 0, rfp)

(* --------------------------- search_knowledge ------------------------- *)

\* 1.0 in the fixed point of the scores (hundredths)
One == 100

Dot(a, b) == a[1] * b[1] + a[2] * b[2]

\* cosineSimilarity(params.query_vector, 'vector') of two embeddings
CosineSimilarity(a, b) == (Dot(a, b) * One) \div (Norm * Norm)

\* a script that scores by cosine distance
ScriptScoreDistance(query_embedding, r) == One - CosineSimilarity(query_embedding, r.vector)

\* the script_score of a VectorRecord: cosineSimilarity(...) + 1.0
ScriptScore(query_embedding, r) == CosineSimilarity(query_embedding, r.vector) + One

\* term filters of which one is enough
MustMatchAny(r, document_type, category) ==
    \/ document_type = None /\ category = None
    \/ document_type # None /\ r.document_type = document_type
    \/ category # None /\ r.category = category

\* the bool/must term filters of search_body (match_all when none is given)
MustMatch(r, document_type, category) ==
    /\ (document_type # None => r.document_type = document_type)
    /\ (category # None => r.category = category)

\* opensearch_client.search(body): the ids of the records that pass the
\* filters and whose _score is at least min_score, by _score descending
\* (ties by id), the first `size` of them
RECURSIVE Ranked(_, _, _)
Ranked(v, q, S) ==
    IF S = {} THEN <<>>
    ELSE LET best == CHOOSE x \in S : \A y \in S :
                        \/ ScriptScore(q, v[x]) > ScriptScore(q, v[y])
                        \/ ScriptScore(q, v[x]) = ScriptScore(q, v[y]) /\ x <= y
         IN  <<best>> \o Ranked(v, q, S \ {best})

OpensearchSearch(v, query_embedding, size, min_score, document_type, category) ==
    LET cand == {x \in DOMAIN v :
                    /\ MustMatch(v[x], document_type, category)
                    /\ ScriptScore(query_embedding, v[x]) >= min_score}
        order == Ranked(v, query_embedding, cand)
    IN  SubSeq(order, 1, Min(size, Len(order)))

\* metadata_collection.find_one({"opensearch_doc_id": id}): the ids of the
\* MetadataRecords linked to the index id
FindByOpensearchId(m, id) == {x \in DOMAIN m : m[x].opensearch_doc_id = id}

\* the raw score handed on as it is
SimilarityScoreRaw(score) == score

\* "similarity_score": hit['_score'] - 1.0
SimilarityScore(score) == score - One

\* the result search_knowledge builds for one hit
SearchResult(st, query_embedding, id) ==
    LET source == st.vec[id]
        found == FindByOpensearchId(st.meta, id)
        mongo_doc == st.meta[CHOOSE x \in found : TRUE]
    IN  [opensearch_doc_id |-> id,
         similarity_score |-> SimilarityScore(ScriptScore(query_embedding, source)),
         content |-> source.content,
         file_name |-> source.file_name,
         document_type |-> source.document_type,
         category |-> source.category,
         chunk_index |-> source.chunk_index,
         mongo_doc_id |-> source.mongo_doc_id,
         has_full |-> found # {},
         full_content |-> IF found # {} THEN mongo_doc.content ELSE None,
         mongo_metadata |-> IF found # {} THEN mongo_doc.metadata ELSE None]

\* results only for the hits that have a MetadataRecord
FormatResultsLinkedOnly(st, query_embedding, hits) ==
    LET linked(id) == FindByOpensearchId(st.meta, id) # {}
        kept == SelectSeq(hits, linked)
    IN  [i \in 1..Len(kept) |-> SearchResult(st, query_embedding, kept[i])]

\* for hit in response['hits']['hits']: ... results.append(result)
FormatResults(st, query_embedding, hits) ==
    [i \in 1..Len(hits) |-> SearchResult(st, query_embedding, hits[i])]

\* KnowledgeManager.search_knowledge(query, limit, similarity_threshold,
\* document_type, category) on state st (a read: the state is unchanged)
SearchKnowledge(st, query, limit, similarity_threshold, document_type, category, fp) ==
    LET query_embedding == Embed(query)
        hits == OpensearchSearch(st.vec, query_embedding, limit, similarity_threshold,
                                 document_type, category)
    IN  IF fp.at \in {"embed", "search"} \/ (fp.at = "find_one" /\ hits # <<>>)
        THEN [ok |-> FALSE, results |-> <<>>]
        ELSE [ok |-> TRUE, results |-> FormatResults(st, query_embedding, hits)]

(* --------------------------- HTTP handlers ---------------------------- *)

\* the status of a response: every exception raised inside a handler's try,
\* an HTTPException(400) included, is caught and raised again as 500
StatusOk == 200
StatusError == 500
StatusBadRequest == 400

\* an exception leaving the handler with the status it was raised with
SurfaceAsRaised(status) == status

\* except Exception as e: raise HTTPException(status_code=500, ...): the
\* status the client sees for an exception raised with the given status
Surface(status) == StatusError

\* an extension check that lets every file through
ExtensionAllowedAny(file_extension, document_type) == TRUE

\* if file_extension not in allowed_types[document_type]: raise
ExtensionAllowed(file_extension, document_type) ==
    file_extension \in allowed_types[document_type]

\* main.py upload_document(file, document_type, category)
UploadDocument(st, file, document_type, category, fp) ==
    LET file_extension == Lower(file.filename[2])
        rejected == [st |-> st, ok |-> FALSE, status |-> Surface(StatusBadRequest),
                     error |-> "invalid", document_id |-> 0, chunks_created |-> 0,
                     embed_calls |-> 0, injected |-> NoFail]
        result == AddDocument(st, file, document_type, category, fp)
    IN  IF document_type \notin DOMAIN allowed_types THEN rejected
        ELSE IF ~ExtensionAllowed(file_extension, document_type) THEN rejected
        ELSE [st |-> result.st, ok |-> result.ok,
              status |-> IF result.ok THEN StatusOk ELSE Surface(StatusError),
              error |-> result.error,
              document_id |-> IF result.ok THEN result.document_id ELSE 0,
              chunks_created |-> result.chunks_created,
              embed_calls |-> result.embed_calls, injected |-> fp]

\* the documents that have an orphan: a VectorRecord whose MetadataRecord is
\* missing, or a MetadataRecord whose VectorRecord is missing
VectorOrphans(st) ==
    {x \in DOMAIN st.vec : st.vec[x].mongo_doc_id \notin DOMAIN st.meta}
MetadataOrphans(st) ==
    {x \in DOMAIN st.meta : st.meta[x].opensearch_doc_id \notin DOMAIN st.vec}
OrphanDocuments(st) ==
    {st.vec[x].mongo_doc_id[1] : x \in VectorOrphans(st)}
    \cup {st.meta[x].document_id : x \in MetadataOrphans(st)}

(* ------------------------------ actions ------------------------------- *)
(* A handler runs when no response is pending; its response stays in ret   *)
(* until the client has taken it (Deliver).                                *)

Store(st) ==
    /\ vec' = st.vec
    /\ meta' = st.meta
    /\ files' = st.files
    /\ nextDoc' = st.nextDoc
    /\ nextOs' = st.nextOs
    /\ UNCHANGED others

NoRet == [op |-> "none"]

\* no reindex_all is in progress
Idle == [pc |-> "idle"]

\* no streamed query was made yet
NoStream == [phase |-> "idle"]

\* the two requests served at the same time
Requests == {1, 2}

\* agent_type of a request: the team or one of legal_system.agents
AgentTypes == {"team", "legal_advisor"}

\* session_id and user_id of a shared agent object nobody has set
NoSession == [session_id |-> None, user_id |-> None]

\* a request that runs no query
NoRun == [at |-> "idle"]

Init ==
    /\ vec = <<>>
    /\ meta = <<>>
    /\ files = <<>>
    /\ nextDoc = 1
    /\ nextOs = 1
    /\ ret = NoRet
    /\ inflight = Idle
    /\ stream = NoStream
    /\ agents = [a \in AgentTypes |-> NoSession]
    /\ runs = [r \in Requests |-> NoRun]

\* the response of upload_document
UploadResponse(r, fn, b, t, c) ==
    [op |-> "upload", ok |-> r.ok, status |-> r.status,
     file_name |-> fn, bytes |-> b, document_type |-> t, category |-> c,
     document_id |-> r.document_id, chunks_created |-> r.chunks_created,
     error |-> r.error, embed_calls |-> r.embed_calls, injected |-> r.injected]

\* the response of the delete_document handler, with what held of the
\* document when the request arrived
DeleteResponse(st, r, d, fp) ==
    [op |-> "delete", ok |-> r.ok,
     status |-> IF r.ok THEN StatusOk ELSE StatusError,
     document_id |-> d, chunks_deleted |-> r.chunks_deleted, error |-> r.error,
     had_metadata |-> FindByDocument(st.meta, d) # <<>>,
     missing_vectors |->
        {x \in MetadataOrphans(st) : st.meta[x].document_id = d} # {},
     injected |-> fp.at]

\* the response of reindex_knowledge_base, with the listing reindex_all
\* started from and the documents that had an orphan then
ReindexResponse(st, r, rfp) ==
    [op |-> "reindex", ok |-> r.ok,
     status |-> IF r.ok THEN StatusOk ELSE StatusError,
     documents |-> ListDocuments(st, None, None),
     orphans |-> OrphanDocuments(st),
     documents_processed |-> r.documents_processed,
     chunks_created |-> r.chunks_created,
     injected |-> rfp.phase]

\* POST /knowledge/upload, every service call succeeding
Upload ==
    /\ ret = NoRet
    /\ nextDoc <= MaxDocs
    /\ \E fn \in FileNames, b \in FileBytes, t \in TypeTags, c \in Categories :
            LET r == UploadDocument(Cur, [filename |-> fn, bytes |-> b], t, c, NoFail)
            IN  /\ Store(r.st)
                /\ ret' = UploadResponse(r, fn, b, t, c)

\* DELETE /knowledge/documents/{document_id}, every service call succeeding
Delete ==
    /\ ret = NoRet
    /\ \E d \in 1..MaxDocs :
        LET r == DeleteDocument(Cur, d, NoFail)
        IN  /\ Store(r.st)
            /\ ret' = DeleteResponse(Cur, r, d, NoFail)

\* POST /knowledge/reindex, every service call succeeding
Reindex ==
    /\ ret = NoRet
    /\ nextDoc + Len(ListDocuments(Cur, None, None)) <= 2 * MaxDocs + 1
    /\ LET r == ReindexAll(Cur, ReindexNoFail)
       IN  /\ Store(r.st)
           /\ ret' = ReindexResponse(Cur, r, ReindexNoFail)

Queries == {"contract", "tort", "appeal"}
Limits == {1, 5}
Thresholds == {0, 70, 150}

\* the response of the search_knowledge handler, with its arguments
SearchResponse(r, q, limit, thr, fp) ==
    [op |-> "search", ok |-> r.ok,
     status |-> IF r.ok THEN StatusOk ELSE StatusError,
     query |-> q, limit |-> limit, similarity_threshold |-> thr,
     document_type |-> None, category |-> None,
     results |-> r.results, injected |-> fp.at]

\* POST /knowledge/search: no filter reaches the query pipeline
SearchEndpoint ==
    /\ ret = NoRet
    /\ \E q \in Queries, limit \in Limits, thr \in Thresholds :
        LET r == SearchKnowledge(Cur, q, limit, thr, None, None, NoFail)
        IN  ret' = SearchResponse(r, q, limit, thr, NoFail)
    /\ UNCHANGED <<stores, others>>

\* the filters a caller of search_knowledge may supply
SearchTypes == {None, "pdf"}
SearchCategories == {None, "legal"}

\* KnowledgeManager.search_knowledge called with its optional filters, every
\* service call succeeding
SearchFiltered ==
    /\ ret = NoRet
    /\ \E q \in Queries, limit \in Limits, thr \in Thresholds \ {150} :
         \E t \in SearchTypes, c \in SearchCategories :
            LET r == SearchKnowledge(Cur, q, limit, thr, t, c, NoFail)
            IN  ret' = [op |-> "search_knowledge", ok |-> r.ok,
                        query |-> q, limit |-> limit, similarity_threshold |-> thr,
                        document_type |-> t, category |-> c,
                        results |-> r.results]
    /\ UNCHANGED <<stores, others>>

\* the client takes the response
Deliver ==
    /\ ret # NoRet
    /\ ret' = NoRet
    /\ UNCHANGED <<stores, others>>

Next == Upload \/ Delete \/ Reindex \/ SearchEndpoint \/ SearchFiltered \/ Deliver

Spec == Init /\ [][Next]_vars

(* The same handlers with service calls that may fail: an upload, a delete *)
(* or a reindex in which one call to the reader, the embedding service,    *)
(* the vector index or the metadata store raises.                          *)

\* document identifiers an upload may allocate when calls may fail
MaxFaultDocs == 1

UploadFault ==
    /\ ret = NoRet
    /\ nextDoc <= MaxFaultDocs
    /\ \E fn \in FileNames, b \in FileBytes, t \in TypeTags, c \in Categories :
         \E fp \in AddFailPoints(b) :
            LET r == UploadDocument(Cur, [filename |-> fn, bytes |-> b], t, c, fp)
            IN  /\ Store(r.st)
                /\ ret' = UploadResponse(r, fn, b, t, c)

DeleteFault ==
    /\ ret = NoRet
    /\ \E d \in 1..MaxFaultDocs, fp \in DeleteFailPoints(MaxChunks) :
        LET r == DeleteDocument(Cur, d, fp)
        IN  /\ Store(r.st)
            /\ ret' = DeleteResponse(Cur, r, d, fp)

ReindexFault ==
    /\ ret = NoRet
    /\ nextDoc + Len(ListDocuments(Cur, None, None)) <= 2 * MaxFaultDocs + 1
    /\ \E rfp \in ReindexFailPoints(Cur) :
        LET r == ReindexAll(Cur, rfp)
        IN  /\ Store(r.st)
            /\ ret' = ReindexResponse(Cur, r, rfp)

\* the calls of search_knowledge that may raise: the embedding of the
\* query, the index search, a metadata lookup
SearchFailPoints ==
    {NoFail, Fail("embed", 0), Fail("search", 0), Fail("find_one", 0)}

SearchFault ==
    /\ ret = NoRet
    /\ \E q \in Queries, limit \in Limits, thr \in Thresholds \ {150} :
         \E fp \in SearchFailPoints :
            LET r == SearchKnowledge(Cur, q, limit, thr, None, None, fp)
            IN  ret' = SearchResponse(r, q, limit, thr, fp)
    /\ UNCHANGED <<stores, others>>

\* filters a listing request may carry
FilterCategories == {None, "legal"}
FilterTypes == {None, "pdf"}

\* GET /knowledge/documents; the aggregate call may raise
ListFault ==
    /\ ret = NoRet
    /\ \E c \in FilterCategories, t \in FilterTypes :
         \E fp \in {NoFail, Fail("aggregate", 0)} :
            LET ok == fp = NoFail
            IN  ret' = [op |-> "list", ok |-> ok,
                        status |-> IF ok THEN StatusOk ELSE Surface(StatusError),
                        category |-> c, document_type |-> t,
                        documents |-> IF ok THEN ListDocuments(Cur, c, t) ELSE <<>>,
                        injected |-> fp.at]
    /\ UNCHANGED <<stores, others>>

\* GET /knowledge/stats; each of its three calls may raise
StatsFault ==
    /\ ret = NoRet
    /\ \E fp \in {NoFail, Fail("stats", 0), Fail("distinct", 0), Fail("count", 0)} :
        LET ok == fp = NoFail
        IN  ret' = [op |-> "stats", ok |-> ok,
                    status |-> IF ok THEN StatusOk ELSE Surface(StatusError),
                    stats |-> IF ok THEN GetStats(Cur) ELSE None,
                    injected |-> fp.at]
    /\ UNCHANGED <<stores, others>>

NextFault ==
    \/ UploadFault \/ DeleteFault \/ ReindexFault \/ SearchFault
    \/ ListFault \/ StatsFault \/ Deliver

SpecFault == Init /\ [][NextFault]_vars

(* ------------------- reindex_all, call by call ------------------------ *)
(* The vector index, the metadata store and the files are shared services:  *)
(* between two calls reindex_all makes to them, a search request served by  *)
(* another worker may make its own.  Here reindex_all advances one call at  *)
(* a time (inflight is its position) and searches are served in between.    *)
(* Uploads are taken while no reindex is in progress.                       *)

\* document identifiers an upload may allocate in this specification
MaxConcDocs == 1

UploadConc ==
    /\ ret = NoRet
    /\ inflight = Idle
    /\ nextDoc <= MaxConcDocs
    /\ \E fn \in FileNames, b \in FileBytes, t \in TypeTags, c \in Categories :
        LET r == UploadDocument(Cur, [filename |-> fn, bytes |-> b], t, c, NoFail)
        IN  /\ Store(r.st)
            /\ ret' = UploadResponse(r, fn, b, t, c)

\* reindex_all is called: documents = await self.list_documents()
ReindexStart ==
    /\ inflight = Idle
    /\ LET documents == ListDocuments(Cur, None, None)
       IN  inflight' = [pc |-> IF documents = <<>> THEN "return" ELSE "find",
                        documents |-> documents, i |-> 1,
                        ids |-> <<>>, k |-> 1,
                        total_processed |-> 0, total_chunks |-> 0]
    /\ UNCHANGED <<stores, ret, stream, agents, runs>>

\* the document reindex_all is at
CurrentDoc == inflight.documents[inflight.i]

\* delete_document: mongo_docs = list(find({"document_id": ...}))
ReindexFind ==
    /\ inflight.pc = "find"
    /\ LET mongo_docs == FindByDocument(meta, CurrentDoc.document_id)
       IN  inflight' = IF NotFound(mongo_docs) THEN Idle
                       ELSE [inflight EXCEPT !.pc = "osdelete",
                                             !.ids = OpensearchIds(mongo_docs),
                                             !.k = 1]
    /\ UNCHANGED <<stores, ret, stream, agents, runs>>

\* delete_document: one opensearch_client.delete(id=doc_id) of the loop
ReindexOsDelete ==
    /\ inflight.pc = "osdelete"
    /\ LET doc_id == inflight.ids[inflight.k]
       IN  IF doc_id \notin DOMAIN vec
           THEN inflight' = Idle /\ vec' = vec
           ELSE /\ vec' = Drop(vec, {doc_id})
                /\ inflight' = IF inflight.k = Len(inflight.ids)
                               THEN [inflight EXCEPT !.pc = "delete_many"]
                               ELSE [inflight EXCEPT !.k = inflight.k + 1]
    /\ UNCHANGED <<meta, files, nextDoc, nextOs, ret, stream, agents, runs>>

\* delete_document: metadata_collection.delete_many({"document_id": ...})
ReindexDeleteMany ==
    /\ inflight.pc = "delete_many"
    /\ meta' = Drop(meta, {x \in DOMAIN meta :
                              meta[x].document_id = CurrentDoc.document_id})
    /\ inflight' = [inflight EXCEPT !.pc = "unlink"]
    /\ UNCHANGED <<vec, files, nextDoc, nextOs, ret, stream, agents, runs>>

\* delete_document: file_path.unlink() when the file exists
ReindexUnlink ==
    /\ inflight.pc = "unlink"
    /\ files' = Drop(files, {CurrentDoc.file_path})
    /\ inflight' = [inflight EXCEPT !.pc = "readd"]
    /\ UNCHANGED <<vec, meta, nextDoc, nextOs, ret, stream, agents, runs>>

\* reindex_all: if file_path.exists(): add_document(...), then the next
\* listed document
ReindexReAdd ==
    /\ inflight.pc = "readd"
    /\ LET doc == CurrentDoc
           exists == doc.file_path \in DOMAIN files
           mock_file == [filename |-> doc.file_name, bytes |-> files[doc.file_path]]
           add == AddDocument(Cur, mock_file, doc.document_type, doc.category, NoFail)
           next == IF inflight.i = Len(inflight.documents) THEN "return" ELSE "find"
       IN  IF exists
           THEN /\ vec' = add.st.vec
                /\ meta' = add.st.meta
                /\ files' = add.st.files
                /\ nextDoc' = add.st.nextDoc
                /\ nextOs' = add.st.nextOs
                /\ inflight' = [inflight EXCEPT
                        !.pc = next, !.i = inflight.i + 1,
                        !.total_processed = inflight.total_processed + 1,
                        !.total_chunks = inflight.total_chunks + add.chunks_created]
           ELSE /\ UNCHANGED stores
                /\ inflight' = [inflight EXCEPT !.pc = next, !.i = inflight.i + 1]
    /\ UNCHANGED <<ret, stream, agents, runs>>

\* reindex_all returns documents_processed and chunks_created
ReindexReturn ==
    /\ inflight.pc = "return"
    /\ inflight' = Idle
    /\ UNCHANGED <<stores, ret, stream, agents, runs>>

\* a search admitted only while no reindex is in progress
SearchAdmittedWhenIdle(task) == task = Idle

\* search_knowledge starts with the embedding of the query: it takes no
\* lock and looks at no reindex in progress
SearchAdmitted(task) == TRUE

\* all that a search request waits for: no response is pending, and the
\* (absent) admission check
SearchMayStart == ret = NoRet /\ SearchAdmitted(inflight)

\* POST /knowledge/search served whatever reindex_all is doing; during is
\* the position of the reindex when the search ran
SearchConc ==
    /\ SearchMayStart
    /\ \E q \in Queries, limit \in Limits, thr \in Thresholds :
        LET r == SearchKnowledge(Cur, q, limit, thr, None, None, NoFail)
        IN  ret' = ("during" :> inflight) @@ SearchResponse(r, q, limit, thr, NoFail)
    /\ UNCHANGED <<stores, others>>

NextConc ==
    \/ UploadConc \/ ReindexStart \/ ReindexFind \/ ReindexOsDelete
    \/ ReindexDeleteMany \/ ReindexUnlink \/ ReindexReAdd \/ ReindexReturn
    \/ SearchConc \/ Deliver

SpecConc == Init /\ [][NextConc]_vars

(* --------------------------- streamed queries -------------------------- *)
(* POST /query/stream and one message on the WebSocket /ws/{session_id}:   *)
(* the agent's run is an iterator of chunks, which the handler walks; the   *)
(* variable stream holds the run, the handler's position in it and the      *)
(* events the client has received for this query.                           *)

\* chunks one run of an agent may yield
MaxRun == 3

\* the content of a chunk: "" stands for a chunk without content (a tool
\* call event, content None)
Contents == {"", "lease", "tort"}

\* Seq(S) up to length n
SeqUpTo(S, n) == UNION {[1..k -> S] : k \in 0..n}

Runs == SeqUpTo(Contents, MaxRun)

ContentEvent(content) == [type |-> "content", content |-> content]
DoneEvent == [type |-> "done"]
ErrorEvent == [type |-> "error"]

\* manager.send_personal_message(message, websocket) and the event a
\* StreamingResponse writes: the client receives the event after the ones
\* sent before
SendPersonalMessage(out, event) == Append(out, event)

\* every chunk is passed on
YieldsAlways(chunk_content) == TRUE

\* if chunk_content: (a chunk with empty or no content is skipped)
Yields(chunk_content) == chunk_content # ""

\* the tool calls a finished run may report
ToolCalls == {<<>>, <<"search">>}

\* What an agent does with one message.  accepts_stream: run(message,
\* stream=...) returns (otherwise it raises TypeError); chunks: the contents
\* of the chunks of the run; raises: a streamed run raises, instead of
\* ending, after its last chunk; tool_calls: the tool calls of the run
Agents ==
    [accepts_stream : BOOLEAN, chunks : Runs, raises : BOOLEAN, tool_calls : ToolCalls]

\* the non-empty contents of a run, in order: the text of the response
ResponseContent(chunks) ==
    LET nonempty(c) == c # ""
    IN  SelectSeq(chunks, nonempty)

\* agent.run(message, stream=True): the iterator of the run
RunStreamed(agent) ==
    [kind |-> "iterable", chunks |-> agent.chunks, raises |-> agent.raises]

\* agent.run(message): the response object of the finished run
RunPlain(agent) ==
    [kind |-> "response", content |-> ResponseContent(agent.chunks),
     tool_calls |-> agent.tool_calls]

\* what "for chunk in x: getattr(chunk, "content", "")" walks when x is a
\* str: its characters, none of which has an attribute content (a piece of
\* the text stands for its characters)
Characters(content) == [i \in 1..Len(content) |-> ""]

\* _run_and_extract(agent_or_team, message, stream): the pair it returns.
\* The stream check sits inside the try, so after a TypeError the result of
\* the fallback run(message) goes through the extraction
RunAndExtract(agent, streamed) ==
    LET extracted(r) == [first |-> [kind |-> "string", content |-> r.content],
                         tool_calls |-> r.tool_calls]
    IN  IF agent.accepts_stream /\ streamed
        THEN [first |-> RunStreamed(agent), tool_calls |-> <<>>]
        ELSE extracted(RunPlain(agent))

\* a query arrives: run_iter, _ = _run_and_extract(agent, message,
\* stream=True); chunks is what the handler's loop over run_iter walks
StreamStart ==
    /\ stream.phase \in {"idle", "done", "failed"}
    /\ \E kind \in {"sse", "ws"}, agent \in Agents :
        LET got == RunAndExtract(agent, TRUE)
            run_iter == got.first
        IN  stream' = [phase |-> "streaming", kind |-> kind,
                       agent |-> agent,
                       first |-> run_iter.kind, tool_calls |-> got.tool_calls,
                       chunks |-> IF run_iter.kind = "iterable" THEN run_iter.chunks
                                  ELSE Characters(run_iter.content),
                       raises |-> run_iter.kind = "iterable" /\ run_iter.raises,
                       pos |-> 0, out |-> <<>>]
    /\ UNCHANGED <<stores, ret, inflight, agents, runs>>

\* one round of "for chunk in run_iter"
StreamChunk ==
    /\ stream.phase = "streaming"
    /\ stream.pos < Len(stream.chunks)
    /\ LET chunk_content == stream.chunks[stream.pos + 1]
       IN  stream' = [stream EXCEPT
                !.pos = stream.pos + 1,
                !.out = IF Yields(chunk_content)
                        THEN SendPersonalMessage(stream.out, ContentEvent(chunk_content))
                        ELSE stream.out]
    /\ UNCHANGED <<stores, ret, inflight, agents, runs>>

\* the iterator ended: the handler sends {"done": true}
StreamEnd ==
    /\ stream.phase = "streaming"
    /\ stream.pos = Len(stream.chunks)
    /\ ~stream.raises
    /\ stream' = [stream EXCEPT !.phase = "done",
                                !.out = SendPersonalMessage(stream.out, DoneEvent)]
    /\ UNCHANGED <<stores, ret, inflight, agents, runs>>

\* the iterator raised: the generator of /query/stream ends there, the
\* WebSocket handler sends {"error": ...} and returns
StreamRaise ==
    /\ stream.phase = "streaming"
    /\ stream.pos = Len(stream.chunks)
    /\ stream.raises
    /\ stream' = [stream EXCEPT
            !.phase = "failed",
            !.out = IF stream.kind = "ws"
                    THEN SendPersonalMessage(stream.out, ErrorEvent)
                    ELSE stream.out]
    /\ UNCHANGED <<stores, ret, inflight, agents, runs>>

NextStream == StreamStart \/ StreamChunk \/ StreamEnd \/ StreamRaise

SpecStream == Init /\ [][NextStream]_vars

(* ---------------- search requests that carry filters ----------------- *)
(* A client of POST /knowledge/search may put document_type and category   *)
(* into its request, as KnowledgeSearchRequest describes them; the handler  *)
(* declares query, limit and similarity_threshold only.                     *)

\* the arguments the handler search_knowledge receives of a request that
\* carries the given filters: it has no parameter for either
HandlerFilters(document_type, category) ==
    [document_type |-> None, category |-> None]

\* POST /knowledge/search for a request with filters; request_document_type
\* and request_category are what the client sent
SearchRequest ==
    /\ ret = NoRet
    /\ \E q \in Queries, limit \in Limits, thr \in Thresholds \ {150} :
         \E t \in SearchTypes, c \in SearchCategories :
            LET passed == HandlerFilters(t, c)
                r == SearchKnowledge(Cur, q, limit, thr, passed.document_type,
                                     passed.category, NoFail)
            IN  ret' = ("request_document_type" :> t) @@ ("request_category" :> c)
                       @@ SearchResponse(r, q, limit, thr, NoFail)
    /\ UNCHANGED <<stores, others>>

NextRequest == Upload \/ SearchRequest \/ Deliver

SpecRequest == Init /\ [][NextRequest]_vars

(* ------------------------- batches of embeddings ---------------------- *)

\* texts one batch may hold
MaxTexts == 3

Sources == {"contract", "lease", "tort", "appeal"}

\* the batches: sequences of at most MaxTexts texts
Batches ==
    UNION {[1..k -> {[src |-> x, len |-> 40] : x \in Sources}] : k \in 0..MaxTexts}

\* a call of one of the two batch forms on a list of texts
EmbedBatch ==
    /\ ret = NoRet
    /\ \E texts \in Batches, fn \in {"get_embedding", "_generate_embeddings_bedrock"} :
        ret' = [op |-> "embed", fn |-> fn, texts |-> texts,
                embeddings |-> IF fn = "get_embedding" THEN GetEmbedding(texts)
                               ELSE GenerateEmbeddings(texts),
                calls |-> InvokeModelCalls(texts)]
    /\ UNCHANGED <<stores, others>>

NextEmbed == UploadConc \/ EmbedBatch \/ Deliver

SpecEmbed == Init /\ [][NextEmbed]_vars

\* ---- OpenSearchVectorDb.delete ----

\* the longest list of ids one delete call is given
MaxIds == 2

\* the lists of ids: ids of the first document's chunks and one more
IdLists == SeqUpTo(1..(MaxChunks + 1), MaxIds)

\* a loop that gives up at the first warning
AfterWarningStop(i) == MaxIds + 1

\* after "except Exception as e: print(Warning ...)": the loop goes on with
\* the remaining ids
AfterWarning(i) == i + 1

\* OpenSearchVectorDb.delete(ids) on index v, from position i on;
\* client.delete raises for an id the index does not hold and at position
\* fail (0: nowhere) for any other reason
RECURSIVE VectorDbDelete(_, _, _, _, _)
VectorDbDelete(v, ids, i, fail, warnings) ==
    IF i > Len(ids) THEN [vec |-> v, returned |-> TRUE, warnings |-> warnings]
    ELSE IF fail = i \/ ids[i] \notin DOMAIN v
         THEN VectorDbDelete(v, ids, AfterWarning(i), fail, Append(warnings, ids[i]))
         ELSE VectorDbDelete(Drop(v, {ids[i]}), ids, i + 1, fail, warnings)

\* a caller deletes a list of ids from the index
VectorDbDeleteCall ==
    /\ ret = NoRet
    /\ \E ids \in IdLists :
        \E fail \in 0..Len(ids) :
            LET r == VectorDbDelete(vec, ids, 1, fail, <<>>)
            IN  /\ vec' = r.vec
                /\ ret' = [op |-> "vectordb_delete", ids |-> ids, fail |-> fail,
                           before |-> vec, returned |-> r.returned,
                           warnings |-> r.warnings]
    /\ UNCHANGED <<meta, files, nextDoc, nextOs, others>>

NextVectorDb == UploadConc \/ VectorDbDeleteCall \/ Deliver
SpecVectorDb == Init /\ [][NextVectorDb]_vars

\* ---- ingestions and deletions, each failing at any step, of several
\* ---- documents

\* the documents ingested
MaxFrameDocs == 2

\* POST /knowledge/upload of a text file under the default category, any
\* one service call failing
UploadFrame ==
    /\ ret = NoRet
    /\ nextDoc <= MaxFrameDocs
    /\ \E b \in FileBytes :
         \E fp \in AddFailPoints(b) :
            LET fn == <<"brief", ".txt">>
                r == UploadDocument(Cur, [filename |-> fn, bytes |-> b], "text", "general", fp)
            IN  /\ Store(r.st)
                /\ ret' = UploadResponse(r, fn, b, "text", "general")

\* DELETE /knowledge/documents/{document_id}, any one service call failing
DeleteFrame ==
    /\ ret = NoRet
    /\ \E d \in 1..MaxFrameDocs, fp \in DeleteFailPoints(MaxChunks) :
        LET r == DeleteDocument(Cur, d, fp)
        IN  /\ Store(r.st)
            /\ ret' = DeleteResponse(Cur, r, d, fp)

NextFrame == UploadFrame \/ DeleteFrame \/ Deliver
SpecFrame == Init /\ [][NextFrame]_vars

\* ---- ingestions, each failing at any step, as the only operations ----

NextIngest == UploadFrame \/ Deliver
SpecIngest == Init /\ [][NextIngest]_vars

\* ---- two delete_document requests for one document, served by two
\* ---- workers: their store calls interleave

\* a request whose find hands the second request the records backwards
FoundBackwardsForSecond(r, mongo_docs) ==
    IF r = 1 THEN mongo_docs
    ELSE [i \in 1..Len(mongo_docs) |-> mongo_docs[Len(mongo_docs) + 1 - i]]

\* list(self.metadata_collection.find({"document_id": document_id})) of
\* request r: the records in the collection's order, whoever asks
Found(r, mongo_docs) == mongo_docs

\* both requests for the stored document d arrive
DeletesStart ==
    /\ ret = NoRet
    /\ inflight = Idle
    /\ \E d \in 1..MaxConcDocs :
        /\ FindByDocument(meta, d) # <<>>
        /\ inflight' = [pc |-> "deletes", document_id |-> d,
                        req |-> [r \in Requests |-> [at |-> "find"]]]
    /\ UNCHANGED <<stores, ret, stream, agents, runs>>

\* request r is at step at of delete_document
DeleteAt(r, at) == inflight.pc = "deletes" /\ inflight.req[r].at = at

\* request r raised: the handler answers 500
DeleteRaised(r, why) ==
    inflight' = [inflight EXCEPT !.req[r] = [at |-> "done", ok |-> FALSE, error |-> why]]

\* mongo_docs = list(find(...)); if not mongo_docs: raise ValueError
DeleteFind(r) ==
    /\ DeleteAt(r, "find")
    /\ LET mongo_docs == Found(r, FindByDocument(meta, inflight.document_id))
       IN  IF NotFound(mongo_docs) THEN DeleteRaised(r, "not found")
           ELSE inflight' = [inflight EXCEPT !.req[r] =
                                [at |-> "osdelete", ids |-> OpensearchIds(mongo_docs),
                                 k |-> 1, file_path |-> mongo_docs[1].file_path]]
    /\ UNCHANGED <<stores, ret, stream, agents, runs>>

\* one self.opensearch_client.delete(index, id): NotFoundError for an id
\* the index no longer holds
DeleteOsDelete(r) ==
    /\ DeleteAt(r, "osdelete")
    /\ LET me == inflight.req[r]
           doc_id == me.ids[me.k]
       IN  IF doc_id \notin DOMAIN vec
           THEN DeleteRaised(r, "opensearch delete") /\ vec' = vec
           ELSE /\ vec' = Drop(vec, {doc_id})
                /\ inflight' = [inflight EXCEPT !.req[r] =
                                    IF me.k = Len(me.ids)
                                    THEN [me EXCEPT !.at = "delete_many"]
                                    ELSE [me EXCEPT !.k = me.k + 1]]
    /\ UNCHANGED <<meta, files, nextDoc, nextOs, ret, stream, agents, runs>>

\* self.metadata_collection.delete_many({"document_id": document_id})
DeleteDeleteMany(r) ==
    /\ DeleteAt(r, "delete_many")
    /\ meta' = Drop(meta, {x \in DOMAIN meta : meta[x].document_id = inflight.document_id})
    /\ inflight' = [inflight EXCEPT !.req[r].at = "unlink"]
    /\ UNCHANGED <<vec, files, nextDoc, nextOs, ret, stream, agents, runs>>

\* if file_path.exists(): file_path.unlink(); return chunks_deleted
DeleteUnlink(r) ==
    /\ DeleteAt(r, "unlink")
    /\ files' = Drop(files, {inflight.req[r].file_path})
    /\ inflight' = [inflight EXCEPT !.req[r] =
                        [at |-> "done", ok |-> TRUE, error |-> None,
                         chunks_deleted |-> Len(inflight.req[r].ids)]]
    /\ UNCHANGED <<vec, meta, nextDoc, nextOs, ret, stream, agents, runs>>

\* both requests have been answered
DeletesReturn ==
    /\ inflight.pc = "deletes"
    /\ \A r \in Requests : inflight.req[r].at = "done"
    /\ ret' = [op |-> "deletes", document_id |-> inflight.document_id,
               results |-> inflight.req]
    /\ inflight' = Idle
    /\ UNCHANGED <<stores, stream, agents, runs>>

NextDeletes ==
    \/ UploadConc
    \/ DeletesStart
    \/ \E r \in Requests : DeleteFind(r)
    \/ \E r \in Requests : DeleteOsDelete(r)
    \/ \E r \in Requests : DeleteDeleteMany(r)
    \/ \E r \in Requests : DeleteUnlink(r)
    \/ DeletesReturn
    \/ Deliver
SpecDeletes == Init /\ [][NextDeletes]_vars

\* ---- queries on the shared agent objects of legal_system: a handler runs
\* ---- until it awaits or returns, and other requests are served meanwhile

\* the content chunks of one streamed run
MaxQueryChunks == 2

\* the session and user identifiers requests carry
Sessions == {"s1", "s2"}
Users == {"u1", "u2"}

\* agent_or_team.session_id = ...; agent_or_team.user_id = ...
SetSession(agent_type, session_id, user_id) ==
    agents' = [agents EXCEPT ![agent_type] =
                  [session_id |-> session_id, user_id |-> user_id]]

\* the query request r has started
Started(at, kind, agent_type, session_id, user_id, n) ==
    [at |-> at, kind |-> kind, agent_type |-> agent_type,
     session_id |-> session_id, user_id |-> user_id, left |-> n]

\* POST /query: the fields are set and the whole run is made by the
\* blocking _run_and_extract(..., stream=False) before the handler returns
\* the session_id read from the agent object
ProcessQuery(r) ==
    /\ runs[r] = NoRun
    /\ \E a \in AgentTypes, sid \in Sessions, u \in Users :
        /\ SetSession(a, sid, u)
        /\ runs' = [runs EXCEPT ![r] =
                      [at |-> "answered", kind |-> "query", agent_type |-> a,
                       session_id |-> sid, user_id |-> u,
                       answered_session_id |-> agents'[a].session_id]]
    /\ UNCHANGED <<stores, ret, inflight, stream>>

\* POST /query/stream: the fields are set and the handler returns the
\* StreamingResponse; generate_response has not been entered
ProcessQueryStream(r) ==
    /\ runs[r] = NoRun
    /\ \E a \in AgentTypes, sid \in Sessions, u \in Users, n \in 1..MaxQueryChunks :
        /\ SetSession(a, sid, u)
        /\ runs' = [runs EXCEPT ![r] = Started("pending", "sse", a, sid, u, n)]
    /\ UNCHANGED <<stores, ret, inflight, stream>>

\* the response iterates generate_response: the first step enters it, calls
\* _run_and_extract(..., stream=True) and runs up to the first yield, later
\* steps run up to the next yield; the step after the last chunk ends the run
GenerateResponseNext(r) ==
    /\ runs[r].at \in {"pending", "running"}
    /\ runs[r].kind = "sse"
    /\ runs' = [runs EXCEPT ![r] =
                  IF runs[r].at = "pending" THEN [runs[r] EXCEPT !.at = "running"]
                  ELSE IF runs[r].left > 1 THEN [runs[r] EXCEPT !.left = runs[r].left - 1]
                  ELSE [runs[r] EXCEPT !.at = "answered", !.left = 0]]
    /\ UNCHANGED <<stores, ret, inflight, stream, agents>>

\* a message on /ws/{session_id}: the fields are set, the run starts and
\* goes on to the first "await manager.send_personal_message" of a chunk
WebsocketMessage(r) ==
    /\ runs[r] = NoRun
    /\ \E a \in AgentTypes, sid \in Sessions, u \in Users, n \in 1..MaxQueryChunks :
        /\ SetSession(a, sid, u)
        /\ runs' = [runs EXCEPT ![r] = Started("running", "ws", a, sid, u, n)]
    /\ UNCHANGED <<stores, ret, inflight, stream>>

\* the awaited send completes: the loop runs to the next content chunk's
\* send, or after the last chunk to the send of the done event
WebsocketResume(r) ==
    /\ runs[r].at = "running"
    /\ runs[r].kind = "ws"
    /\ runs' = [runs EXCEPT ![r] =
                  IF runs[r].left > 1 THEN [runs[r] EXCEPT !.left = runs[r].left - 1]
                  ELSE [runs[r] EXCEPT !.at = "answered", !.left = 0]]
    /\ UNCHANGED <<stores, ret, inflight, stream, agents>>

\* the client has its answer; the next request can come
QueryAnswered(r) ==
    /\ runs[r].at = "answered"
    /\ runs' = [runs EXCEPT ![r] = NoRun]
    /\ UNCHANGED <<stores, ret, inflight, stream, agents>>

NextQuery ==
    \/ \E r \in Requests : ProcessQuery(r)
    \/ \E r \in Requests : ProcessQueryStream(r)
    \/ \E r \in Requests : GenerateResponseNext(r)
    \/ \E r \in Requests : WebsocketMessage(r)
    \/ \E r \in Requests : WebsocketResume(r)
    \/ \E r \in Requests : QueryAnswered(r)
SpecQuery == Init /\ [][NextQuery]_vars

(* ------------------------------ claims -------------------------------- *)

\* the VectorRecords and the MetadataRecords of document d
VectorsOf(d) == {x \in DOMAIN vec : vec[x].mongo_doc_id[1] = d}
MetadataOf(d) == {x \in DOMAIN meta : meta[x].document_id = d}

\* the VectorRecord v and the MetadataRecord m are a linked pair
Linked(v, m) ==
    /\ v \in DOMAIN vec
    /\ m \in DOMAIN meta
    /\ meta[m].opensearch_doc_id = v
    /\ vec[v].mongo_doc_id = meta[m]._id

\* C1: an upload that returned successfully for a file of N chunks left
\* exactly N VectorRecords and N MetadataRecords of the new document, each
\* MetadataRecord linked with exactly one of those VectorRecords and each of
\* those VectorRecords with exactly one MetadataRecord, and reports
\* chunks_created = N.
C1_IngestCreatesLinkedPairs ==
    (ret.op = "upload" /\ ret.ok) =>
        LET d == ret.document_id
            N == Len(ReaderRead(ret.bytes))
        IN  /\ Cardinality(VectorsOf(d)) = N
            /\ Cardinality(MetadataOf(d)) = N
            /\ \A m \in MetadataOf(d) :
                 Cardinality({v \in VectorsOf(d) : Linked(v, m)}) = 1
            /\ \A v \in VectorsOf(d) :
                 Cardinality({m \in MetadataOf(d) : Linked(v, m)}) = 1
            /\ ret.chunks_created = N

\* C1 witness: a two-chunk upload returned while another document is stored
C1_Witness ==
    /\ ret.op = "upload" /\ ret.ok
    /\ ret.chunks_created = 2
    /\ Cardinality(VectorsOf(ret.document_id)) = 2
    /\ \E d \in 1..MaxDocs : d # ret.document_id /\ MetadataOf(d) # {}

\* the stored files of document d (the path holds the identifier)
FilesOf(d) == {f \in DOMAIN files : f[2] = d}

\* the listed documents after the call hold document doc again: same file
\* name, type and category, and as many MetadataRecords and VectorRecords
PresentAgain(doc) ==
    \E j \in 1..Len(ListDocuments(Cur, None, None)) :
        LET e == ListDocuments(Cur, None, None)[j]
        IN  /\ e.file_name = doc.file_name
            /\ e.document_type = doc.document_type
            /\ e.category = doc.category
            /\ e.chunk_count = doc.chunk_count
            /\ Cardinality(VectorsOf(e.document_id)) = doc.chunk_count

\* C2: after a reindex that completed, every document listed before it is
\* present again with the chunk count of its original ingestion.
C2_ReindexKeepsChunkCounts ==
    (ret.op = "reindex" /\ ret.ok) =>
        \A i \in 1..Len(ret.documents) : PresentAgain(ret.documents[i])

\* C3: after a delete_document(d) that returned successfully, no
\* VectorRecord, no MetadataRecord and no stored file of d remains.
C3_DeleteRemovesEverything ==
    (ret.op = "delete" /\ ret.ok) =>
        /\ VectorsOf(ret.document_id) = {}
        /\ MetadataOf(ret.document_id) = {}
        /\ FilesOf(ret.document_id) = {}

\* C4: when every upload, delete and reindex completed without a failing
\* service call, every VectorRecord has exactly one MetadataRecord with the
\* matching link identifier and every MetadataRecord exactly one
\* VectorRecord.
C4_OneToOnePairing ==
    /\ \A v \in DOMAIN vec :
         /\ Cardinality({m \in DOMAIN meta : meta[m]._id = vec[v].mongo_doc_id}) = 1
         /\ Cardinality({m \in DOMAIN meta : Linked(v, m)}) = 1
    /\ \A m \in DOMAIN meta :
         /\ Cardinality({v \in DOMAIN vec : v = meta[m].opensearch_doc_id}) = 1
         /\ Cardinality({v \in DOMAIN vec : Linked(v, m)}) = 1

\* C4 witness: a delete returned and left another document of two chunks
C4_Witness ==
    /\ ret.op = "delete" /\ ret.ok /\ ret.chunks_deleted = 2
    /\ \E d \in 1..MaxDocs : Cardinality(VectorsOf(d)) = 2

\* C5: a reindex run on a knowledge base in which some document has an
\* orphan completes, and afterwards every VectorRecord and MetadataRecord of
\* that document is in a linked pair.
C5_ReindexRepairsOrphans ==
    (ret.op = "reindex" /\ ret.injected = "none" /\ ret.orphans # {}) =>
        /\ ret.ok
        /\ \A d \in ret.orphans :
            /\ \A v \in VectorsOf(d) : \E m \in MetadataOf(d) : Linked(v, m)
            /\ \A m \in MetadataOf(d) : \E v \in VectorsOf(d) : Linked(v, m)

\* the cosine similarity of the query of the pending search response to
\* the VectorRecord x
QueryCosine(x) == CosineSimilarity(Embed(ret.query), vec[x].vector)

\* the candidate records of the pending search response
Candidates == {x \in DOMAIN vec : MustMatch(vec[x], ret.document_type, ret.category)}

\* C6: a search whose similarity_threshold is greater than the cosine
\* similarity of every candidate record returns the empty list and no error.
C6_ThresholdAboveAllIsEmpty ==
    (ret.op = "search" /\ \A x \in Candidates : ret.similarity_threshold > QueryCosine(x)) =>
        ret.ok /\ ret.results = <<>>

\* C7: every result of a search has a similarity_score at or above the
\* similarity_threshold of the call.
C7_ResultsAtOrAboveThreshold ==
    (ret.op = "search" /\ ret.ok) =>
        \A i \in 1..Len(ret.results) :
            ret.results[i].similarity_score >= ret.similarity_threshold

\* C8: for every hit whose raw score lies in [0, 2], the similarity_score
\* returned is the raw score minus 1 and lies in [-1, 1].
C8_ScoreShiftedIntoRange ==
    (ret.op = "search" /\ ret.ok) =>
        \A i \in 1..Len(ret.results) :
            LET raw == ScriptScore(Embed(ret.query), vec[ret.results[i].opensearch_doc_id])
                sim == ret.results[i].similarity_score
            IN  (0 <= raw /\ raw <= 2 * One) =>
                    /\ sim = raw - One
                    /\ -One <= sim /\ sim <= One

\* C8 witness: a search returned hits of raw score 0.4 and of raw score 2.0
C8_Witness ==
    /\ ret.op = "search" /\ ret.ok
    /\ \E i \in 1..Len(ret.results) : ret.results[i].similarity_score = -60
    /\ \E x \in DOMAIN vec : ScriptScore(Embed("contract"), vec[x]) = 2 * One

\* the documents that have a file or a record in the knowledge base
StoredDocuments ==
    {f[2] : f \in DOMAIN files}
    \cup {vec[x].mongo_doc_id[1] : x \in DOMAIN vec}
    \cup {meta[x].document_id : x \in DOMAIN meta}

\* the knowledge base holds one document and nothing else: the one-chunk
\* text file fn under category general
OnlyOneChunkTextUpload(fn) ==
    /\ Lower(fn[2]) \in allowed_types["text"]
    /\ \E d \in StoredDocuments :
        /\ StoredDocuments = {d}
        /\ files = (<<"general", d, fn>> :> 1)
        /\ \A x \in DOMAIN vec : vec[x].document_type = "text"

\* C9: the upload of a one-chunk text file under category general into the
\* empty knowledge base reports chunks_created = 1, and a search after it
\* for a phrase of the file with threshold 0.0 returns exactly one result,
\* with the file's name and a similarity_score >= 0.0.
C9_UploadThenSearch ==
    \A fn \in FileNames :
        /\ (/\ ret.op = "upload" /\ ret.file_name = fn /\ ret.bytes = 1
            /\ ret.document_type = "text" /\ ret.category = "general"
            /\ Lower(fn[2]) \in allowed_types["text"]
            /\ Cardinality(StoredDocuments) <= 1)
           => ret.ok /\ ret.chunks_created = 1 /\ OnlyOneChunkTextUpload(fn)
        /\ (/\ ret.op = "search" /\ ret.similarity_threshold = 0
            /\ ret.query = ChunkText(0).src
            /\ OnlyOneChunkTextUpload(fn))
           => /\ ret.ok
              /\ Len(ret.results) = 1
              /\ ret.results[1].file_name = fn
              /\ ret.results[1].similarity_score >= 0

\* C9 witness: the search of the scenario has returned
C9_Witness ==
    /\ ret.op = "search" /\ ret.similarity_threshold = 0
    /\ ret.query = ChunkText(0).src
    /\ OnlyOneChunkTextUpload(<<"brief", ".txt">>)
    /\ Len(ret.results) = 1

\* C10: a delete_document on a document that has MetadataRecords, some of
\* whose VectorRecords are already absent from the index, succeeds and
\* removes the remaining VectorRecords, the MetadataRecords and the file.
C10_DeleteToleratesMissingVectors ==
    (/\ ret.op = "delete" /\ ret.injected = "none"
     /\ ret.had_metadata /\ ret.missing_vectors) =>
        /\ ret.ok
        /\ MetadataOf(ret.document_id) = {}
        /\ \A x \in DOMAIN vec : \E m \in DOMAIN meta : meta[m].opensearch_doc_id = x
        /\ FilesOf(ret.document_id) = {}

\* C11: a delete_document call for an id with no MetadataRecord, whose
\* lookup itself succeeds, fails with "not found" and leaves the vector
\* index, the metadata store and the stored files as they were
C11_DeleteUnknownChangesNothing ==
    [][(/\ ret'.op = "delete"
        /\ FindByDocument(meta, ret'.document_id) = <<>>
        /\ ret'.injected # "find")
       => (/\ ~ret'.ok
           /\ ret'.error = "not found"
           /\ ret'.chunks_deleted = 0
           /\ UNCHANGED <<vec, meta, files>>)]_vars

\* a delete of an id that has VectorRecords but no MetadataRecord was
\* refused, and the vectors are still in the index
C11_Witness ==
    /\ ret.op = "delete"
    /\ ~ret.had_metadata
    /\ ret.error = "not found"
    /\ VectorsOf(ret.document_id) # {}

\* C12: in a search that returned, the results are the hits of the index
\* search, one result per hit in the same order; a hit whose link id some
\* MetadataRecord carries has that record's full text and metadata map, and
\* a hit with no such record has neither; in both cases "content" is the
\* preview stored in the index, at most PreviewLen characters of the chunk
C12_ResultsEnrichedWhenLinked ==
    (ret.op = "search" /\ ret.ok) =>
        LET hits == OpensearchSearch(vec, Embed(ret.query), ret.limit,
                                     ret.similarity_threshold,
                                     ret.document_type, ret.category)
        IN  /\ Len(ret.results) = Len(hits)
            /\ \A i \in 1..Len(hits) :
                LET res == ret.results[i]
                    linked == {m \in DOMAIN meta : meta[m].opensearch_doc_id = hits[i]}
                    chunk == ChunkText(res.chunk_index)
                IN  /\ res.opensearch_doc_id = hits[i]
                    /\ res.content.src = chunk.src
                    /\ res.content.len = Min(chunk.len, PreviewLen)
                    /\ linked # {} =>
                         /\ res.has_full
                         /\ \E m \in linked :
                              /\ res.full_content = meta[m].content
                              /\ res.mongo_metadata = meta[m].metadata
                         /\ res.full_content = chunk
                    /\ linked = {} => ~res.has_full

\* a search returned a hit without MetadataRecord, with a preview shorter
\* than its chunk, next to a hit that carries the full text
C12_Witness ==
    /\ ret.op = "search"
    /\ ret.ok
    /\ \E i, j \in 1..Len(ret.results) :
        /\ ~ret.results[i].has_full
        /\ ret.results[i].content.len < ChunkText(ret.results[i].chunk_index).len
        /\ ret.results[j].has_full

\* C13: an upload that passed the handler's checks, of a file its reader
\* splits into zero chunks, returns successfully with chunks_created = 0,
\* having made no call to the embedding service and written no VectorRecord
\* and no MetadataRecord of the new document
C13_ZeroChunksWritesNothing ==
    (ret.op = "upload" /\ ret.error # "invalid" /\ ret.bytes = 0) =>
        /\ ret.ok
        /\ ret.chunks_created = 0
        /\ ret.embed_calls = 0
        /\ VectorsOf(ret.document_id) = {}
        /\ MetadataOf(ret.document_id) = {}

\* a zero-chunk upload returned, next to a document that has records
C13_Witness ==
    /\ ret.op = "upload"
    /\ ret.ok
    /\ ret.bytes = 0
    /\ ret.document_id > 1
    /\ FilesOf(ret.document_id) # {}
    /\ meta # <<>>

\* C14: an upload in which the reader, the embedding service, an index
\* write or the metadata insert raised is answered with a failure, and the
\* records written before the failing call are all still there: the k
\* VectorRecords indexed before the failing index call, or all N
\* VectorRecords and the k MetadataRecords inserted before the failure of
\* insert_many, and the saved file
C14_FailureKeepsPartialWrites ==
    (ret.op = "upload" /\ ret.injected.at # "none") =>
        LET d == nextDoc - 1
            N == Len(ReaderRead(ret.bytes))
            at == ret.injected.at
            k == ret.injected.k
        IN  /\ ~ret.ok
            /\ ret.status = StatusError
            /\ FilesOf(d) # {}
            /\ Cardinality(VectorsOf(d)) =
                 (IF at = "index" THEN k ELSE IF at = "insert" THEN N ELSE 0)
            /\ Cardinality(MetadataOf(d)) = (IF at = "insert" THEN k ELSE 0)

\* an ingestion failed after some of the VectorRecords of the file were
\* indexed and before the others were
C14_Witness ==
    /\ ret.op = "upload"
    /\ ~ret.ok
    /\ ret.injected.at = "index"
    /\ VectorsOf(nextDoc - 1) # {}
    /\ Cardinality(VectorsOf(nextDoc - 1)) < Len(ReaderRead(ret.bytes))

\* C15: an upload whose tag is none of pdf, docx and text, or whose
\* extension in lower case is not on the allow-list of its tag, is answered
\* with a failure and stores no file, writes no record and allocates no id
C15_InvalidUploadStoresNothing ==
    [][(/\ ret'.op = "upload"
        /\ \/ ret'.document_type \notin {"pdf", "docx", "text"}
           \/ Lower(ret'.file_name[2]) \notin allowed_types[ret'.document_type])
       => (/\ ~ret'.ok
           /\ UNCHANGED <<vec, meta, files, nextDoc, nextOs>>)]_vars

\* an upload with an allowed tag and an extension outside its allow-list
\* was refused while the knowledge base holds a document
C15_Witness ==
    /\ ret.op = "upload"
    /\ ~ret.ok
    /\ ret.document_type = "text"
    /\ ret.file_name = <<"run", ".exe">>
    /\ ret.bytes > 0
    /\ meta # <<>>

\* the chunk count of the file stored for document d
ChunksOfFile(d) == Len(ReaderRead(files[CHOOSE f \in FilesOf(d) : TRUE]))

\* C16: where every ingestion ran to its end, the MetadataRecords of a
\* document whose file has N chunks carry the chunk_index values 0..N-1,
\* each on exactly one record, and total_chunks = N on every record
C16_ChunkIndexContiguous ==
    \A d \in 1..(nextDoc - 1) :
        MetadataOf(d) # {} =>
            LET N == ChunksOfFile(d)
            IN  /\ {meta[m].chunk_index : m \in MetadataOf(d)} = 0..(N - 1)
                /\ Cardinality(MetadataOf(d)) = N
                /\ \A m \in MetadataOf(d) : meta[m].total_chunks = N

\* a document of more than one chunk is stored
C16_Witness ==
    \E d \in 1..(nextDoc - 1) :
        /\ Cardinality(MetadataOf(d)) > 1
        /\ \E m \in MetadataOf(d) : meta[m].chunk_index > 0

\* the non-empty contents among the first n chunks of the run, in order
ProducedContents(n) ==
    LET nonempty(c) == c # ""
    IN  SelectSeq(SubSeq(stream.chunks, 1, n), nonempty)

\* C18: while a streamed query runs, and once its run has ended without
\* raising, the client has received the non-empty contents produced so far,
\* in the order produced and nothing else, followed - once the run has
\* ended - by one done event, which is the last event
C18_StreamContentsThenOneDone ==
    (stream.phase \in {"streaming", "done"}) =>
        LET produced == ProducedContents(stream.pos)
            n == Len(produced)
        IN  /\ Len(stream.out) = n + (IF stream.phase = "done" THEN 1 ELSE 0)
            /\ \A i \in 1..n :
                /\ stream.out[i].type = "content"
                /\ stream.out[i].content = produced[i]
            /\ stream.phase = "done" =>
                /\ stream.pos = Len(stream.chunks)
                /\ stream.out[n + 1].type = "done"

\* a run of three chunks, one of them without content, has ended and the
\* client holds two contents and the done event
C18_Witness ==
    /\ stream.phase = "done"
    /\ Len(stream.chunks) = 3
    /\ \E i \in 1..3 : stream.chunks[i] = ""
    /\ Len(stream.out) = 3
    /\ stream.out[1].content # stream.out[2].content

\* the results of the pending search response that belong to document d
ResultsOf(d) ==
    {i \in 1..Len(ret.results) : ret.results[i].mongo_doc_id[1] = d}

KnowledgeOps == {"upload", "list", "delete", "search", "stats", "reindex"}

\* C19: a knowledge endpoint that failed - on an unsupported type or
\* extension, an unknown document id, or a service call that raised -
\* answers with status 500 in every case, and an upload whose embedding
\* call raised made that call once
C19_FailuresSurfaceAs500 ==
    (ret.op \in KnowledgeOps /\ ~ret.ok) =>
        /\ ret.status = StatusError
        /\ (ret.op = "upload" /\ ret.injected.at = "embed") => ret.embed_calls = 1

\* an upload refused for its type tag was answered with status 500
C19_Witness ==
    /\ ret.op = "upload"
    /\ ~ret.ok
    /\ ret.error = "invalid"
    /\ ret.document_type \notin DOMAIN allowed_types
    /\ ret.status = StatusError
    /\ ret.status # StatusBadRequest

\* the VectorRecords a search_knowledge call with the arguments of the
\* pending response may return: those that carry every supplied filter
\* value and whose raw score reaches the threshold
Eligible ==
    {x \in DOMAIN vec :
        /\ (ret.document_type # None => vec[x].document_type = ret.document_type)
        /\ (ret.category # None => vec[x].category = ret.category)
        /\ ScriptScore(Embed(ret.query), vec[x]) >= ret.similarity_threshold}

\* C20: every result of a search_knowledge call is a VectorRecord that
\* carries each filter value supplied (both, when both are supplied), the
\* results are distinct and at most limit, and they are as many as limit
\* allows of the eligible records - with no filter, of all the records that
\* reach the threshold
C20_FiltersConjoinedAndLimited ==
    (ret.op = "search_knowledge" /\ ret.ok) =>
        /\ \A i \in 1..Len(ret.results) : ret.results[i].opensearch_doc_id \in Eligible
        /\ \A i, j \in 1..Len(ret.results) :
            i # j => ret.results[i].opensearch_doc_id # ret.results[j].opensearch_doc_id
        /\ Len(ret.results) <= ret.limit
        /\ Len(ret.results) = Min(ret.limit, Cardinality(Eligible))

\* a search filtered by type and by category returned a record while the
\* index holds a record of that type in another category, which reaches the
\* threshold as well
C20_Witness ==
    /\ ret.op = "search_knowledge"
    /\ ret.document_type # None
    /\ ret.category # None
    /\ Len(ret.results) > 0
    /\ Len(ret.results) < ret.limit
    /\ \E x \in DOMAIN vec :
        /\ vec[x].document_type = ret.document_type
        /\ vec[x].category # ret.category
        /\ ScriptScore(Embed(ret.query), vec[x]) >= ret.similarity_threshold

\* C21: every result of an HTTP search request that carried a type or a
\* category filter has that type and that category
C21_HttpSearchHonoursFilters ==
    (ret.op = "search" /\ ret.ok) =>
        \A i \in 1..Len(ret.results) :
            /\ ret.request_document_type # None =>
                 ret.results[i].document_type = ret.request_document_type
            /\ ret.request_category # None =>
                 ret.results[i].category = ret.request_category

\* the MetadataRecords that carry the filters of the pending list response
Listed ==
    {x \in DOMAIN meta :
        /\ (ret.category # None => meta[x].category = ret.category)
        /\ (ret.document_type # None => meta[x].document_type = ret.document_type)}

\* the sum of chunk_count over the first n summaries of the pending response
RECURSIVE ChunkCountSum(_)
ChunkCountSum(n) ==
    IF n = 0 THEN 0 ELSE ret.documents[n].chunk_count + ChunkCountSum(n - 1)

C23_BatchEmbeddingInOrder ==
    /\ ret.op = "embed" =>
        /\ Len(ret.embeddings) = Len(ret.texts)
        /\ Len(ret.calls) = Len(ret.texts)
        /\ \A i \in 1..Len(ret.texts) :
            /\ ret.calls[i] = ret.texts[i].src
            /\ ret.embeddings[i] = Embed(ret.texts[i].src)
    /\ \A x \in DOMAIN vec :
        /\ vec[x].content.src = ChunkText(vec[x].chunk_index).src
        /\ vec[x].vector = Embed(ChunkText(vec[x].chunk_index).src)

\* a batch of three texts, the first and the last different, was embedded
\* while the index holds a document of two chunks
C23_Witness ==
    /\ ret.op = "embed"
    /\ Len(ret.texts) = 3
    /\ ret.texts[1] # ret.texts[3]
    /\ ret.fn = "_generate_embeddings_bedrock"
    /\ \E x \in DOMAIN vec : vec[x].chunk_index = 1

\* C24: what _run_and_extract(agent, message, stream=True) returned to a
\* streaming handler is the iterable of the run and no tool call
C24_StreamedRunReturnsIterable ==
    (stream.phase # "idle") =>
        /\ stream.first = "iterable"
        /\ stream.tool_calls = <<>>

\* C25: OpenSearchVectorDb.delete(ids) returns normally whatever id is
\* missing; every listed id whose delete did not fail is gone from the
\* index, every id that was not listed is still there as it was
C25_VectorDbDeleteSkipsFailures ==
    (ret.op = "vectordb_delete") =>
        /\ ret.returned
        /\ \A id \in DOMAIN ret.before :
            LET listed == {i \in 1..Len(ret.ids) : ret.ids[i] = id}
            IN  /\ (listed \ {ret.fail} # {}) => id \notin DOMAIN vec
                /\ (listed = {}) => (id \in DOMAIN vec /\ vec[id] = ret.before[id])

\* a call whose first id is not in the index and whose second id is: the
\* second one is removed after the warning
C25_Witness ==
    /\ ret.op = "vectordb_delete"
    /\ Len(ret.ids) = 2
    /\ ret.fail = 0
    /\ ret.ids[1] \notin DOMAIN ret.before
    /\ ret.ids[2] \in DOMAIN ret.before
    /\ ret.ids[2] \notin DOMAIN vec
    /\ ret.warnings = <<ret.ids[1]>>

\* C26: an add_document or a delete_document acting on one document leaves
\* every VectorRecord, MetadataRecord and stored file of every other
\* document as it was, and an ingestion leaves every VectorRecord that
\* existed before it as it was
C26_OtherDocumentsUntouched ==
    [][(ret = NoRet /\ ret'.op \in {"upload", "delete"}) =>
        LET d == IF ret'.op = "upload" THEN nextDoc ELSE ret'.document_id
        IN  /\ \A x \in DOMAIN vec :
                 (vec[x].mongo_doc_id[1] # d) =>
                    (x \in DOMAIN vec' /\ vec'[x] = vec[x])
            /\ \A x \in DOMAIN meta :
                 (meta[x].document_id # d) =>
                    (x \in DOMAIN meta' /\ meta'[x] = meta[x])
            /\ \A f \in DOMAIN files :
                 (f[2] # d) => (f \in DOMAIN files' /\ files'[f] = files[f])
            /\ (ret'.op = "upload") =>
                 \A x \in DOMAIN vec : x \in DOMAIN vec' /\ vec'[x] = vec[x]
      ]_vars

\* a delete removed all of one document while the other document, ingested
\* after it, still has its VectorRecords, MetadataRecords and file
C26_Witness ==
    /\ ret.op = "delete" /\ ret.ok
    /\ ret.document_id = 1
    /\ VectorsOf(1) = {} /\ MetadataOf(1) = {} /\ FilesOf(1) = {}
    /\ Cardinality(VectorsOf(2)) = MaxChunks
    /\ Cardinality(MetadataOf(2)) = MaxChunks
    /\ FilesOf(2) # {}

\* C27: when ingestions, each failing at any step, are the only operations,
\* every MetadataRecord has a VectorRecord under its link id; an ingestion
\* that failed while embedding left both stores as they were, one that
\* failed while indexing had embedded every chunk and inserted no
\* MetadataRecord, and one that failed while inserting had written the
\* VectorRecord of every chunk
C27_VectorsBeforeMetadata ==
    [][/\ \A m \in DOMAIN meta' : meta'[m].opensearch_doc_id \in DOMAIN vec'
       /\ (ret = NoRet /\ ret'.op = "upload") =>
            LET d == nextDoc
                N == Len(ReaderRead(ret'.bytes))
            IN  /\ (ret'.error = "embedding") => (vec' = vec /\ meta' = meta)
                /\ (ret'.error = "index") =>
                     /\ ret'.embed_calls = N
                     /\ {m \in DOMAIN meta' : meta'[m].document_id = d} = {}
                /\ (ret'.error = "insert_many") =>
                     Cardinality({x \in DOMAIN vec' : vec'[x].mongo_doc_id[1] = d}) = N
      ]_vars

\* the second ingestion failed after its first VectorRecord was written and
\* before any of its MetadataRecords was, the first one failed while
\* embedding and left no record
C27_Witness ==
    /\ ret.op = "upload" /\ ret.error = "index"
    /\ nextDoc = 3
    /\ Cardinality(VectorsOf(2)) = 1
    /\ MetadataOf(2) = {}
    /\ VectorsOf(1) = {} /\ MetadataOf(1) = {} /\ FilesOf(1) # {}

\* C28: every raw file that add_document stored is the file_path of at
\* least one MetadataRecord
C28_StoredFilesAreReferenced ==
    \A f \in DOMAIN files : \E m \in DOMAIN meta : meta[m].file_path = f

\* C29: once two concurrent delete_document requests for one stored
\* document have both finished, no VectorRecord and no MetadataRecord of the
\* document is left and at least one of the requests reported success
C29_ConcurrentDeletesRemoveAll ==
    (ret.op = "deletes") =>
        /\ VectorsOf(ret.document_id) = {}
        /\ MetadataOf(ret.document_id) = {}
        /\ \E r \in Requests : ret.results[r].ok

\* both requests had found the records of a document of MaxChunks chunks;
\* the second one removed them all, the first one ran into an id already
\* removed
C29_Witness ==
    /\ ret.op = "deletes"
    /\ ret.results[2].ok /\ ret.results[2].chunks_deleted = MaxChunks
    /\ ~ret.results[1].ok /\ ret.results[1].error = "opensearch delete"
    /\ FilesOf(ret.document_id) = {}

\* C30: while the run of a query is in progress, the shared agent object it
\* runs on has the session_id and the user_id of the request that started
\* the run
C30_RunKeepsItsSession ==
    \A r \in Requests :
        (runs[r].at = "running") =>
            /\ agents[runs[r].agent_type].session_id = runs[r].session_id
            /\ agents[runs[r].agent_type].user_id = runs[r].user_id

====
